---- MODULE Spec2Model ----
(***************************************************************************)
(* Brio kernel coordination layer: the mesh router of BrioHostState        *)
(* (host.rs), the session facade, the store facade and the Broadcaster     *)
(* (ws/broadcaster.rs).                                                    *)
(***************************************************************************)
EXTENDS Integers, Sequences, FiniteSets, TLC

(* ------------------------------------------------------------------ *)
(* Bounds of the model                                                 *)
(* ------------------------------------------------------------------ *)

\* capacity the components give their inbound channels
QueueCap == 3
\* mesh_calls issued in one run, over all callers
MaxCalls == 2
\* mesh_calls issued in one run of the ordering specification, over all callers
MaxFifoCalls == 3

Channels == {"ch1", "ch2"}
ComponentIds == {"A", "B"}
Callers == {"c1", "c2"}
Methods == {"ping"}

(* ------------------------------------------------------------------ *)
(* mesh/mod.rs: Payload, MeshMessage                                   *)
(* ------------------------------------------------------------------ *)

\* enum Payload { Json(String), Binary(Vec<u8>) }
Json(s) == [tag |-> "Json", data |-> s]
Binary(b) == [tag |-> "Binary", data |-> b]
NoPayload == [tag |-> "none", data |-> ""]
Payloads == {Json("hi"), Binary("01")}
\* the payload is opaque to the router (it is moved into the message and
\* never read), so each caller sends one payload, different from the other's
PayloadsOf(c) == IF c = "c1" THEN {Json("hi")} ELSE {Binary("01")}

\* Result<Payload, String>, the value a target puts into reply_tx
ReplyOk(p) == [ok |-> TRUE, payload |-> p, error |-> ""]
ReplyErr(e) == [ok |-> FALSE, payload |-> NoPayload, error |-> e]
NoReply == [ok |-> FALSE, payload |-> NoPayload, error |-> "none"]
Replies == {ReplyOk(Json("pong")), ReplyOk(Binary("01")), ReplyErr("boom")}

\* struct MeshMessage { target, method, payload, reply_tx }: reply_tx is the
\* sending half of the oneshot channel mesh_call number seq of caller made
MeshMessage(c, n, t, m, p) ==
    [target |-> t, method |-> m, payload |-> p, reply_tx |-> <<c, n>>]

VARIABLES
    mesh_router,   \* BrioHostState.mesh_router: id -> Sender (channel) or NoSender
    router_lock,   \* the RwLock around mesh_router: its read guards and its write guard
    inbound,       \* channel -> queue of MeshMessage (the mpsc buffer)
    rx_alive,      \* channel -> its Receiver has not been dropped
    held,          \* channel -> messages its owner has received and still owns
    pc,            \* caller -> position in mesh_call
    call,          \* caller -> locals of its mesh_call (target, method, payload, sender)
    seq,           \* caller -> number of mesh_calls it has issued
    reply_slot,    \* caller -> oneshot channel of its mesh_call
    result,        \* caller -> what its last mesh_call returned
    last_registered, \* history: id -> channel of the latest register_component
    lookup,        \* history: caller -> what the table held when its call looked up
    awaited        \* history: caller -> what reply_rx.await yielded to its call

VARIABLES
    sessions,      \* SessionManager: session id -> "unissued", "open" or "committed"
    next_session,  \* SessionManager: the next id begin_session issues
    session_mutex, \* BrioHostState.session_manager: "free" or the thread holding it
    s_pc,          \* thread -> position in begin_session / commit_session
    s_arg,         \* thread -> the session id of its commit_session
    s_result,      \* thread -> what its last begin_session / commit_session returned
    ok_commits     \* history: session id -> number of commit_sessions that returned Ok

VARIABLES
    db,            \* the backend behind db_pool: rewritten key -> row
    last_query     \* what the last SqlStore query returned, and through which store

VARIABLES
    client_count,  \* Broadcaster.client_count (shared by every clone)
    bc_pos,        \* broadcast channel: number of messages stored so far
    bc_buf,        \* broadcast channel: the retained messages, oldest first
    rx_cnt,        \* broadcast channel: number of its Receivers
    rcv,           \* receiver -> state of the BroadcastReceiver and its cursor
    last_recv,     \* receiver -> what its last recv() returned
    last_bcast,    \* what the last broadcast() / broadcast_patch() returned
    bc_senders,    \* broadcast channel: the Broadcasters (Senders) not yet dropped
    n_bcast,       \* history: number of broadcast calls of this run
    n_recv,        \* history: number of recv calls of this run
    bc_sent,       \* history: every message stored, in order
    rcv_hist       \* history: receiver -> where it subscribed, recv()s done, overrun

VARIABLES
    reg_entries,   \* ProviderRegistry: name -> the implementation registered, or NoProvider
    reg_default,   \* ProviderRegistry: the name marked default, or ""
    reg_out,       \* what the last inference() / inference_by_name() returned
    reg_hist       \* history: how the kernel was built, the name last marked, names registered

VARIABLES
    node_id,       \* the NodeId the kernel was started with, or NoNode (standalone)
    cluster        \* cluster membership: component id -> the remote node serving it, or NoNode

VARIABLES
    target_arch,   \* the target the supervisor component is compiled for
    stub_out,      \* what the last call of a guest entry point returned
    stub_calls,    \* history: number of guest entry point calls of this run
    wit_calls      \* number of calls handed on to the host's generated bindings

mesh_vars == <<mesh_router, router_lock, inbound, rx_alive, held, pc, call, seq, reply_slot,
               result, last_registered, lookup, awaited>>
session_vars == <<sessions, next_session, session_mutex, s_pc, s_arg, s_result,
                  ok_commits>>
store_vars == <<db, last_query>>
bcast_vars == <<client_count, bc_pos, bc_buf, rx_cnt, rcv, last_recv, last_bcast,
                bc_senders, n_bcast, n_recv, bc_sent, rcv_hist>>

registry_vars == <<reg_entries, reg_default, reg_out, reg_hist>>
cluster_vars == <<node_id, cluster>>
stub_vars == <<target_arch, stub_out, stub_calls, wit_calls>>

vars == <<mesh_vars, session_vars, store_vars, bcast_vars, registry_vars, cluster_vars,
          stub_vars>>

NoSender == "none"
\* RwLock: the callers holding a read guard, and the registration holding
\* the write guard
NoWriter == <<>>
Unlocked == [readers |-> {}, writer |-> NoWriter]
NoCall == [target |-> "", method |-> "", payload |-> NoPayload, sender |-> NoSender]
SlotNone == [state |-> "none", value |-> NoReply]
SlotPending == [state |-> "pending", value |-> NoReply]
SlotSent(r) == [state |-> "sent", value |-> r]
SlotDropped == [state |-> "dropped", value |-> NoReply]

NoLookup == [target |-> "", entry |-> NoSender, rx_dead |-> FALSE, latest |-> NoSender]

\* anyhow::Result<Payload>
Ok(p) == [kind |-> "Ok", payload |-> p, error |-> <<>>]
Err(parts) == [kind |-> "Err", payload |-> NoPayload, error |-> parts]
NoResult == [kind |-> "none", payload |-> NoPayload, error |-> <<>>]

(* ------------------------------------------------------------------ *)
(* host.rs: BrioHostState                                              *)
(* ------------------------------------------------------------------ *)

\* BrioHostState::new: mesh_router is an empty HashMap
MeshInit ==
    /\ mesh_router = [id \in ComponentIds |-> NoSender]
    /\ router_lock = Unlocked
    /\ inbound = [ch \in Channels |-> <<>>]
    /\ rx_alive = [ch \in Channels |-> TRUE]
    /\ held = [ch \in Channels |-> {}]
    /\ pc = [c \in Callers |-> "idle"]
    /\ call = [c \in Callers |-> NoCall]
    /\ seq = [c \in Callers |-> 0]
    /\ reply_slot = [c \in Callers |-> SlotNone]
    /\ result = [c \in Callers |-> NoResult]
    /\ last_registered = [id \in ComponentIds |-> NoSender]
    /\ lookup = [c \in Callers |-> NoLookup]
    /\ awaited = [c \in Callers |-> SlotNone]

\* router.insert(id, sender)
RouterInsertKeepFirst(router, id, sender) ==
    IF router[id] = NoSender THEN [router EXCEPT ![id] = sender] ELSE router
RouterInsert(router, id, sender) ==
    [router EXCEPT ![id] = sender]

\* RwLock::write: granted once no guard is out
WriteAcquirable(lock) == lock.readers = {} /\ lock.writer = NoWriter
\* RwLock::read: granted while no write guard is out
ReadAcquirable(lock) == lock.writer = NoWriter

\* register_component(id, sender): the write guard is taken, the entry
\* inserted and the guard dropped, with nothing in between
RegisterComponent(id, ch) ==
    /\ WriteAcquirable(router_lock)
    /\ mesh_router' = RouterInsert(mesh_router, id, ch)
    /\ last_registered' = [last_registered EXCEPT ![id] = ch]
    /\ UNCHANGED <<router_lock, inbound, rx_alive, held, pc, call, seq, reply_slot, result,
                   lookup, awaited>>
    /\ UNCHANGED <<session_vars, store_vars, bcast_vars, registry_vars, cluster_vars,
                   stub_vars>>

\* router.get(target).ok_or_else(..)?.clone()
RouterGetOrFirst(router, target) ==
    IF router[target] = NoSender THEN "ch1" ELSE router[target]
RouterGet(router, target) == router[target]

\* the errors mesh_call builds with anyhow!
NotFoundError(t) == Err(<<"Target component '", t, "' not found">>)
SendError(t) == Err(<<"Failed to send message to target '", t, "': ", "channel closed">>)
RecvError(t) == Err(<<"Failed to receive reply from target '", t, "': ", "channel closed">>)
TargetError(t, e) == Err(<<"Target '", t, "' returned error: ", e>>)

RECURSIVE SumOver(_, _)
SumOver(f, S) ==
    IF S = {} THEN 0
    ELSE LET x == CHOOSE y \in S : TRUE IN f[x] + SumOver(f, S \ {x})
CallsIssued == SumOver(seq, Callers)

\* mesh_call, lines 70-82: router.get(target), the clone of the Sender or
\* the not-found error, then the oneshot channel and the message
LookupBody(c, t, m, p) ==
    /\ IF RouterGet(mesh_router, t) = NoSender
         THEN /\ pc' = [pc EXCEPT ![c] = "done"]
              /\ result' = [result EXCEPT ![c] = NotFoundError(t)]
              /\ call' = [call EXCEPT ![c] = NoCall]
              /\ reply_slot' = [reply_slot EXCEPT ![c] = SlotNone]
         ELSE /\ pc' = [pc EXCEPT ![c] = "send"]
              /\ result' = [result EXCEPT ![c] = NoResult]
              /\ call' = [call EXCEPT ![c] =
                           [target |-> t, method |-> m, payload |-> p,
                            sender |-> RouterGet(mesh_router, t)]]
              /\ reply_slot' = [reply_slot EXCEPT ![c] = SlotPending]
    /\ lookup' = [lookup EXCEPT ![c] =
                    [target |-> t, entry |-> mesh_router[t],
                     rx_dead |-> mesh_router[t] # NoSender /\ ~rx_alive[mesh_router[t]],
                     latest |-> last_registered[t]]]
    /\ awaited' = [awaited EXCEPT ![c] = SlotNone]
    /\ UNCHANGED <<mesh_router, inbound, rx_alive, held, last_registered>>
    /\ UNCHANGED <<session_vars, store_vars, bcast_vars, registry_vars, cluster_vars,
                   stub_vars>>

\* mesh_call, lines 68-82 as one step: the read guard is taken, the target
\* looked up and the guard dropped at the end of the block, with no await
\* in between
MeshCallIssue(c, t, m, p) ==
    /\ pc[c] \in {"idle", "done"}
    /\ ReadAcquirable(router_lock)
    /\ seq' = [seq EXCEPT ![c] = @ + 1]
    /\ LookupBody(c, t, m, p)
    /\ UNCHANGED router_lock

\* a mesh_call is issued, while the run has calls left
MeshCallLookup(c, t, m, p) ==
    /\ CallsIssued < MaxCalls
    /\ MeshCallIssue(c, t, m, p)

\* Sender::send: the message goes to the back of the channel's buffer
EnqueueFront(q, msg) == <<msg>> \o q
EnqueueTwice(q, msg) == q \o <<msg, msg>>
Enqueue(q, msg) == Append(q, msg)

\* the slots of channel ch in use: one for every message in the buffer and
\* one for every permit a send has reserved and not yet filled
Reserved(ch) == {c \in Callers : pc[c] = "push" /\ call[c].sender = ch}
SlotsUsed(ch) == Len(inbound[ch]) + Cardinality(Reserved(ch))

\* Sender::send(..).await on channel ch, its first half (reserve): an error
\* once the Receiver is dropped, otherwise it needs a free slot of the buffer
SendOutcomeIgnoreClosed(ch) ==
    IF SlotsUsed(ch) < QueueCap THEN "permit" ELSE "full"
SendOutcomeSharedCapacity(ch) ==
    IF ~rx_alive[ch] THEN "closed"
    ELSE IF \A x \in Channels : SlotsUsed(x) < QueueCap THEN "permit" ELSE "full"
SendOutcome(ch) ==
    IF ~rx_alive[ch] THEN "closed"
    ELSE IF SlotsUsed(ch) < QueueCap THEN "permit" ELSE "full"

\* mesh_call, lines 84-87: sender.send(message).await up to the permit: the
\* send fails on a closed channel, or it gets a slot of the buffer
MeshCallSendEvict(c) ==
    /\ pc[c] = "send"
    /\ LET ch == call[c].sender
       IN IF SendOutcome(ch) = "closed"
            THEN /\ pc' = [pc EXCEPT ![c] = "done"]
                 /\ result' = [result EXCEPT ![c] = SendError(call[c].target)]
                 /\ reply_slot' = [reply_slot EXCEPT ![c] = SlotNone]
                 /\ call' = [call EXCEPT ![c] = NoCall]
                 /\ mesh_router' = [mesh_router EXCEPT ![call[c].target] = NoSender]
            ELSE /\ SendOutcome(ch) = "permit"
                 /\ pc' = [pc EXCEPT ![c] = "push"]
                 /\ UNCHANGED <<mesh_router, result, reply_slot, call>>
    /\ UNCHANGED <<router_lock, inbound, rx_alive, held, seq, last_registered, lookup,
                   awaited>>
    /\ UNCHANGED <<session_vars, store_vars, bcast_vars, registry_vars, cluster_vars,
                   stub_vars>>
MeshCallSend(c) ==
    /\ pc[c] = "send"
    /\ LET ch == call[c].sender
       IN IF SendOutcome(ch) = "closed"
            THEN /\ pc' = [pc EXCEPT ![c] = "done"]
                 /\ result' = [result EXCEPT ![c] = SendError(call[c].target)]
                 /\ reply_slot' = [reply_slot EXCEPT ![c] = SlotNone]
                 /\ call' = [call EXCEPT ![c] = NoCall]
            ELSE /\ SendOutcome(ch) = "permit"
                 /\ pc' = [pc EXCEPT ![c] = "push"]
                 /\ UNCHANGED <<result, reply_slot, call>>
    /\ UNCHANGED <<mesh_router, router_lock, inbound, rx_alive, held, seq, last_registered,
                   lookup, awaited>>
    /\ UNCHANGED <<session_vars, store_vars, bcast_vars, registry_vars, cluster_vars,
                   stub_vars>>

\* mesh_call, line 84: sender.send(message).await from the permit on: the
\* message is put into the buffer, whether or not the Receiver was dropped
\* in the meantime; send returns Ok and the call goes on to reply_rx.await.
\* A message put into a channel whose Receiver is gone stays there, with
\* its reply handle, for as long as a Sender of the channel lives, and the
\* waiting call holds one. (The channel is freed with its last Sender; by
\* then no call waits on a message in it and nothing can read it, so the
\* buffer of a channel without Receiver is left as it is here.)
MeshCallPush(c) ==
    /\ pc[c] = "push"
    /\ LET ch == call[c].sender
           msg == MeshMessage(c, seq[c], call[c].target, call[c].method, call[c].payload)
       IN inbound' = [inbound EXCEPT ![ch] = Enqueue(@, msg)]
    /\ pc' = [pc EXCEPT ![c] = "wait"]
    /\ UNCHANGED <<mesh_router, router_lock, rx_alive, held, call, seq, reply_slot, result,
                   last_registered, lookup, awaited>>
    /\ UNCHANGED <<session_vars, store_vars, bcast_vars, registry_vars, cluster_vars,
                   stub_vars>>

\* response.map_err(..), line 91, after reply_rx.await, lines 88-90
MapReplyLoseValue(t, slot) ==
    IF slot.state = "dropped" THEN RecvError(t)
    ELSE IF slot.value.ok THEN Ok(Json("pong"))
    ELSE TargetError(t, slot.value.error)
MapReply(t, slot) ==
    IF slot.state = "dropped" THEN RecvError(t)
    ELSE IF slot.value.ok THEN Ok(slot.value.payload)
    ELSE TargetError(t, slot.value.error)

\* reply_rx.await resolves once the slot holds a value or its sending half
\* is gone
ReplyReadyOnlyValue(slot) == slot.state = "sent"
ReplyReady(slot) == slot.state \in {"sent", "dropped"}

\* mesh_call, lines 88-91: reply_rx.await resolves
MeshCallReply(c) ==
    /\ pc[c] = "wait"
    /\ ReplyReady(reply_slot[c])
    /\ pc' = [pc EXCEPT ![c] = "done"]
    /\ result' = [result EXCEPT ![c] = MapReply(call[c].target, reply_slot[c])]
    /\ call' = [call EXCEPT ![c] = NoCall]
    /\ reply_slot' = [reply_slot EXCEPT ![c] = SlotNone]
    /\ awaited' = [awaited EXCEPT ![c] = reply_slot[c]]
    /\ UNCHANGED <<mesh_router, router_lock, inbound, rx_alive, held, seq, last_registered, lookup>>
    /\ UNCHANGED <<session_vars, store_vars, bcast_vars, registry_vars, cluster_vars,
                   stub_vars>>

\* the caller drops the mesh_call future at one of its two awaits: the
\* locals of the call are dropped, reply_rx among them; a message already
\* sent belongs to the channel
MeshCallCancelRetract(c) ==
    /\ pc[c] \in {"send", "wait"}
    /\ pc' = [pc EXCEPT ![c] = "idle"]
    /\ reply_slot' = [reply_slot EXCEPT ![c] = SlotNone]
    /\ call' = [call EXCEPT ![c] = NoCall]
    /\ lookup' = [lookup EXCEPT ![c] = NoLookup]
    /\ inbound' = [ch \in Channels |->
                     SelectSeq(inbound[ch], LAMBDA msg : msg.reply_tx # <<c, seq[c]>>)]
    /\ UNCHANGED <<mesh_router, router_lock, rx_alive, held, seq, result,
                   last_registered, awaited>>
    /\ UNCHANGED <<session_vars, store_vars, bcast_vars, registry_vars, cluster_vars,
                   stub_vars>>
MeshCallCancel(c) ==
    /\ pc[c] \in {"send", "wait"}
    /\ pc' = [pc EXCEPT ![c] = "idle"]
    /\ reply_slot' = [reply_slot EXCEPT ![c] = SlotNone]
    /\ call' = [call EXCEPT ![c] = NoCall]
    /\ lookup' = [lookup EXCEPT ![c] = NoLookup]
    /\ UNCHANGED <<mesh_router, router_lock, inbound, rx_alive, held, seq, result,
                   last_registered, awaited>>
    /\ UNCHANGED <<session_vars, store_vars, bcast_vars, registry_vars, cluster_vars,
                   stub_vars>>

(* ------------------------------------------------------------------ *)
(* the components: owners of the inbound receivers and of reply_tx     *)
(* ------------------------------------------------------------------ *)

\* the oneshot receiver of msg.reply_tx is still awaited by its mesh_call
SlotLive(msg) ==
    LET c == msg.reply_tx[1]
    IN /\ seq[c] = msg.reply_tx[2]
       /\ pc[c] = "wait"
       /\ reply_slot[c].state = "pending"

\* the reply slots after the reply handles of msgs were used: v is what
\* each oneshot now holds
SlotsAfter(msgs, v) ==
    [c \in Callers |->
        IF \E msg \in msgs : msg.reply_tx[1] = c /\ SlotLive(msg)
          THEN v ELSE reply_slot[c]]

SeqToSet(s) == {s[i] : i \in 1..Len(s)}

\* Receiver::recv on the inbound channel
TargetRecv(ch) ==
    /\ rx_alive[ch]
    /\ inbound[ch] # <<>>
    /\ held' = [held EXCEPT ![ch] = @ \cup {Head(inbound[ch])}]
    /\ inbound' = [inbound EXCEPT ![ch] = Tail(@)]
    /\ UNCHANGED <<mesh_router, router_lock, rx_alive, pc, call, seq, reply_slot, result,
                   last_registered, lookup, awaited>>
    /\ UNCHANGED <<session_vars, store_vars, bcast_vars, registry_vars, cluster_vars,
                   stub_vars>>

\* msg.reply_tx.send(r)
TargetReply(ch, msg, r) ==
    /\ msg \in held[ch]
    /\ held' = [held EXCEPT ![ch] = @ \ {msg}]
    /\ reply_slot' = SlotsAfter({msg}, SlotSent(r))
    /\ UNCHANGED <<mesh_router, router_lock, inbound, rx_alive, pc, call, seq, result,
                   last_registered, lookup, awaited>>
    /\ UNCHANGED <<session_vars, store_vars, bcast_vars, registry_vars, cluster_vars,
                   stub_vars>>

\* the component drops the message, and reply_tx with it
TargetDropMessage(ch, msg) ==
    /\ msg \in held[ch]
    /\ held' = [held EXCEPT ![ch] = @ \ {msg}]
    /\ reply_slot' = SlotsAfter({msg}, SlotDropped)
    /\ UNCHANGED <<mesh_router, router_lock, inbound, rx_alive, pc, call, seq, result,
                   last_registered, lookup, awaited>>
    /\ UNCHANGED <<session_vars, store_vars, bcast_vars, registry_vars, cluster_vars,
                   stub_vars>>

\* the component drops its inbound Receiver: the channel closes and the
\* messages still queued are dropped
TargetDropReceiver(ch) ==
    /\ rx_alive[ch]
    /\ rx_alive' = [rx_alive EXCEPT ![ch] = FALSE]
    /\ inbound' = [inbound EXCEPT ![ch] = <<>>]
    /\ reply_slot' = SlotsAfter(SeqToSet(inbound[ch]), SlotDropped)
    /\ UNCHANGED <<mesh_router, router_lock, held, pc, call, seq, result, last_registered,
                   lookup, awaited>>
    /\ UNCHANGED <<session_vars, store_vars, bcast_vars, registry_vars, cluster_vars,
                   stub_vars>>

MeshCalls ==
    \/ \E c \in Callers, t \in ComponentIds, m \in Methods : \E p \in PayloadsOf(c) :
          MeshCallLookup(c, t, m, p)
    \/ \E c \in Callers : MeshCallSend(c)
    \/ \E c \in Callers : MeshCallPush(c)
    \/ \E c \in Callers : MeshCallReply(c)
    \/ \E c \in Callers : MeshCallCancel(c)
    \/ \E ch \in Channels : TargetRecv(ch)
    \/ \E ch \in Channels, r \in Replies : \E msg \in held[ch] : TargetReply(ch, msg, r)
    \/ \E ch \in Channels : \E msg \in held[ch] : TargetDropMessage(ch, msg)
    \/ \E ch \in Channels : TargetDropReceiver(ch)

MeshNext ==
    \/ \E id \in ComponentIds, ch \in Channels : RegisterComponent(id, ch)
    \/ MeshCalls

\* the kernel after register_component("A", ch1) and register_component("B", ch2)
MeshRegisteredInit ==
    /\ mesh_router = [id \in ComponentIds |-> IF id = "A" THEN "ch1" ELSE "ch2"]
    /\ last_registered = mesh_router
    /\ router_lock = Unlocked
    /\ inbound = [ch \in Channels |-> <<>>]
    /\ rx_alive = [ch \in Channels |-> TRUE]
    /\ held = [ch \in Channels |-> {}]
    /\ pc = [c \in Callers |-> "idle"]
    /\ call = [c \in Callers |-> NoCall]
    /\ seq = [c \in Callers |-> 0]
    /\ reply_slot = [c \in Callers |-> SlotNone]
    /\ result = [c \in Callers |-> NoResult]
    /\ lookup = [c \in Callers |-> NoLookup]
    /\ awaited = [c \in Callers |-> SlotNone]


\* the kernel with "A" on ch1 and "B" on ch2, where the component of "A"
\* has stopped reading: ch1 holds k messages of an earlier caller whose
\* calls were dropped while they waited
MeshLoadedInit(k) ==
    /\ mesh_router = [id \in ComponentIds |-> IF id = "A" THEN "ch1" ELSE "ch2"]
    /\ last_registered = mesh_router
    /\ router_lock = Unlocked
    /\ inbound = [ch \in Channels |->
                    IF ch = "ch1"
                      THEN [i \in 1..k |->
                              MeshMessage("c0", i, "A", "ping", Json("hi"))]
                      ELSE <<>>]
    /\ rx_alive = [ch \in Channels |-> TRUE]
    /\ held = [ch \in Channels |-> {}]
    /\ pc = [c \in Callers |-> "idle"]
    /\ call = [c \in Callers |-> NoCall]
    /\ seq = [c \in Callers |-> 0]
    /\ reply_slot = [c \in Callers |-> SlotNone]
    /\ result = [c \in Callers |-> NoResult]
    /\ lookup = [c \in Callers |-> NoLookup]
    /\ awaited = [c \in Callers |-> SlotNone]

\* ch1 is full
MeshBusyInit == MeshLoadedInit(QueueCap)
\* ch1 has room for one message more
MeshLastSlotInit == MeshLoadedInit(QueueCap - 1)

(* ------------------------------------------------------------------ *)
(* host.rs: the guards of the RwLock, step by step                     *)
(* ------------------------------------------------------------------ *)

\* the read guard of caller c is dropped at the end of the block, line 74
ReleaseReadNever(lock, c) == lock
ReleaseRead(lock, c) == [lock EXCEPT !.readers = @ \ {c}]

\* mesh_call, line 69: self.mesh_router.read()
MeshCallReadLock(c, t, m, p) ==
    /\ pc[c] \in {"idle", "done"}
    /\ CallsIssued < MaxCalls
    /\ ReadAcquirable(router_lock)
    /\ router_lock' = [router_lock EXCEPT !.readers = @ \cup {c}]
    /\ pc' = [pc EXCEPT ![c] = "lookup"]
    /\ seq' = [seq EXCEPT ![c] = @ + 1]
    /\ call' = [call EXCEPT ![c] =
                  [target |-> t, method |-> m, payload |-> p, sender |-> NoSender]]
    /\ result' = [result EXCEPT ![c] = NoResult]
    /\ reply_slot' = [reply_slot EXCEPT ![c] = SlotNone]
    /\ lookup' = [lookup EXCEPT ![c] = NoLookup]
    /\ awaited' = [awaited EXCEPT ![c] = SlotNone]
    /\ UNCHANGED <<mesh_router, inbound, rx_alive, held, last_registered>>
    /\ UNCHANGED <<session_vars, store_vars, bcast_vars, registry_vars, cluster_vars,
                   stub_vars>>

\* mesh_call, lines 70-82, under the read guard, which is dropped when the
\* block ends: on the clone as on the early return of the ?
MeshCallLookupLocked(c) ==
    /\ pc[c] = "lookup"
    /\ LookupBody(c, call[c].target, call[c].method, call[c].payload)
    /\ router_lock' = ReleaseRead(router_lock, c)
    /\ UNCHANGED seq

\* register_component, line 45: self.mesh_router.write()
RegisterWriteLock(id, ch) ==
    /\ WriteAcquirable(router_lock)
    /\ router_lock' = [router_lock EXCEPT !.writer = <<id, ch>>]
    /\ UNCHANGED <<mesh_router, inbound, rx_alive, held, pc, call, seq, reply_slot,
                   result, last_registered, lookup, awaited>>
    /\ UNCHANGED <<session_vars, store_vars, bcast_vars, registry_vars, cluster_vars,
                   stub_vars>>

\* register_component, lines 46-47: router.insert(id, sender), and the write
\* guard is dropped on return
RegisterInsert ==
    /\ router_lock.writer # NoWriter
    /\ mesh_router' = RouterInsert(mesh_router, router_lock.writer[1],
                                   router_lock.writer[2])
    /\ last_registered' = [last_registered EXCEPT
                             ![router_lock.writer[1]] = router_lock.writer[2]]
    /\ router_lock' = [router_lock EXCEPT !.writer = NoWriter]
    /\ UNCHANGED <<inbound, rx_alive, held, pc, call, seq, reply_slot, result,
                   lookup, awaited>>
    /\ UNCHANGED <<session_vars, store_vars, bcast_vars, registry_vars, cluster_vars,
                   stub_vars>>

\* the router with the guards of its lock taken and dropped step by step,
\* while no component takes or answers a message: every call that finds
\* its target stays suspended until its caller drops it
RouterLockNext ==
    \/ \E id \in ComponentIds, ch \in Channels : RegisterWriteLock(id, ch)
    \/ RegisterInsert
    \/ \E c \in Callers, t \in ComponentIds, m \in Methods : \E p \in PayloadsOf(c) :
          MeshCallReadLock(c, t, m, p)
    \/ \E c \in Callers : MeshCallLookupLocked(c)
    \/ \E c \in Callers : MeshCallSend(c)
    \/ \E c \in Callers : MeshCallPush(c)
    \/ \E c \in Callers : MeshCallCancel(c)

\* a mesh_call suspended at one of its awaits
Suspended(c) == pc[c] \in {"send", "wait"}

\* C17: a mesh_call holds the read guard only from its read() to the end of
\* the lookup: no call suspended at the send (on a full queue) or at the
\* reply wait holds a guard, and while only such calls are under way and
\* no registration is, the lock is free and register_component can take
\* the write guard; a registration that holds it can always finish.
C17_NoLockAcrossAwait ==
    /\ \A c \in Callers : c \in router_lock.readers <=> pc[c] = "lookup"
    /\ \A c \in Callers : Suspended(c) => c \notin router_lock.readers
    /\ ((\A c \in Callers : pc[c] # "lookup") /\ router_lock.writer = NoWriter) =>
          /\ router_lock = Unlocked
          /\ \A id \in ComponentIds, ch \in Channels : ENABLED RegisterWriteLock(id, ch)
    /\ router_lock.writer # NoWriter => ENABLED RegisterInsert

\* C17 witness: one call is suspended on the full queue of "A", the other
\* waits for a reply from "B", and a registration holds the write guard
C17_Witness ==
    /\ pc["c1"] = "send"
    /\ call["c1"].target = "A"
    /\ Len(inbound[call["c1"].sender]) = QueueCap
    /\ pc["c2"] = "wait"
    /\ call["c2"].target = "B"
    /\ router_lock.writer = <<"A", "ch2">>

(* ------------------------------------------------------------------ *)
(* Properties of the mesh router                                       *)
(* ------------------------------------------------------------------ *)

\* the reply handle of caller c's current mesh_call
Handle(c) == <<c, seq[c]>>

\* how many copies of the message with reply handle h sit in channel ch,
\* queued or in the hands of the channel's owner
CopiesIn(ch, h) ==
    Cardinality({i \in 1..Len(inbound[ch]) : inbound[ch][i].reply_tx = h})
      + Cardinality({msg \in held[ch] : msg.reply_tx = h})

RECURSIVE Copies(_, _)
Copies(chs, h) ==
    IF chs = {} THEN 0
    ELSE LET ch == CHOOSE x \in chs : TRUE
         IN CopiesIn(ch, h) + Copies(chs \ {ch}, h)

\* the messages of channel ch that carry reply handle h
MessagesIn(ch, h) ==
    {msg \in SeqToSet(inbound[ch]) \cup held[ch] : msg.reply_tx = h}

\* C1: a mesh_call to an id the table holds puts exactly one MeshMessage,
\* carrying the call's target, method and payload, into the channel
\* registered under that id (never two, and none before the send), and
\* the call returns exactly the reply the component put into reply_tx:
\* Ok(payload) for an Ok reply, an error carrying the text for an Err reply.
C1_DeliveredOnceExactReply ==
    \A c \in Callers :
        /\ \A n \in 1..seq[c] : Copies(Channels, <<c, n>>) <= 1
        /\ pc[c] \in {"send", "push"} => Copies(Channels, Handle(c)) = 0
        /\ (pc[c] = "wait" /\ reply_slot[c].state = "pending") =>
              /\ lookup[c].entry # NoSender
              /\ Copies(Channels, Handle(c)) = 1
              /\ MessagesIn(lookup[c].entry, Handle(c)) =
                    {MeshMessage(c, seq[c], call[c].target, call[c].method,
                                 call[c].payload)}
              /\ call[c].target = lookup[c].target
        /\ (pc[c] = "done" /\ awaited[c].state = "sent") =>
              IF awaited[c].value.ok
                THEN result[c] = Ok(awaited[c].value.payload)
                ELSE result[c] = TargetError(lookup[c].target, awaited[c].value.error)

\* C1 witness: the scenario of the specification, a call to "B" answered
\* with Json("pong") returns Ok(Json("pong"))
C1_Witness ==
    /\ pc["c1"] = "done"
    /\ lookup["c1"].target = "B"
    /\ awaited["c1"] = SlotSent(ReplyOk(Json("pong")))
    /\ result["c1"] = Ok(Json("pong"))

\* C2: a mesh_call whose target is not in the dispatch table at the lookup
\* has returned the not-found error in that same step: it is never at the
\* send or at the reply wait, and no channel holds a message of it.
C2_NotFoundWithoutWaiting ==
    \A c \in Callers :
        (lookup[c].target # "" /\ lookup[c].entry = NoSender) =>
            /\ pc[c] = "done"
            /\ result[c] = NotFoundError(lookup[c].target)
            /\ Copies(Channels, Handle(c)) = 0
            /\ call[c] = NoCall
            /\ reply_slot[c] = SlotNone

\* C2 witness: a call to "A" made while "B" alone is registered
C2_Witness ==
    /\ lookup["c1"].target = "A"
    /\ lookup["c1"].entry = NoSender
    /\ mesh_router["B"] # NoSender
    /\ result["c1"] = NotFoundError("A")

\* C6: a mesh_call whose target is in the table with a channel whose
\* Receiver is already dropped never reaches the reply wait and enqueues
\* nothing; when it returns, it returns the send-failure error.
C6_SendFailure ==
    \A c \in Callers :
        (lookup[c].entry # NoSender /\ lookup[c].rx_dead) =>
            /\ pc[c] \in {"send", "done"}
            /\ Copies(Channels, Handle(c)) = 0
            /\ pc[c] = "done" => result[c] = SendError(lookup[c].target)

\* C6 witness: such a call has returned
C6_Witness ==
    \E c \in Callers :
        /\ lookup[c].entry # NoSender
        /\ lookup[c].rx_dead
        /\ pc[c] = "done"
        /\ result[c] = SendError(lookup[c].target)

\* C7: register_component is always possible, the table maps every id to
\* the channel of the latest registration of that id, and the message of a
\* mesh_call is put into the channel that was the latest registration of
\* its target when the call looked it up.
C7_LastRegistrationWins ==
    /\ \A id \in ComponentIds : mesh_router[id] = last_registered[id]
    /\ \A id \in ComponentIds, ch \in Channels : ENABLED RegisterComponent(id, ch)
    /\ \A c \in Callers :
          (pc[c] = "wait" /\ reply_slot[c].state = "pending") =>
              /\ lookup[c].latest # NoSender
              /\ CopiesIn(lookup[c].latest, Handle(c)) = 1
              /\ \A ch \in Channels \ {lookup[c].latest} : CopiesIn(ch, Handle(c)) = 0

\* C7 witness: "A" was registered with ch1 and then with ch2, and a call to
\* "A" waits with its message in ch2
C7_Witness ==
    /\ last_registered["A"] = "ch2"
    /\ \E c \in Callers :
          /\ pc[c] = "wait"
          /\ lookup[c].target = "A"
          /\ lookup[c].latest = "ch2"
          /\ CopiesIn("ch2", Handle(c)) = 1
          /\ \E d \in Callers \ {c} : lookup[d].target = "A" /\ lookup[d].latest = "ch1"

\* the router with "A" on ch1 and "B" on ch2, the table left as it is, and
\* a longer run of calls: the callers issue, send, wait and drop their
\* calls in any order, and the components take their messages, answer or
\* drop them, or drop their Receiver
FifoNext ==
    \/ \E c \in Callers, t \in ComponentIds, m \in Methods : \E p \in PayloadsOf(c) :
          CallsIssued < MaxFifoCalls /\ MeshCallIssue(c, t, m, p)
    \/ \E c \in Callers : MeshCallSend(c)
    \/ \E c \in Callers : MeshCallPush(c)
    \/ \E c \in Callers : MeshCallReply(c)
    \/ \E c \in Callers : MeshCallCancel(c)
    \/ \E ch \in Channels : TargetRecv(ch)
    \/ \E ch \in Channels, r \in Replies : \E msg \in held[ch] : TargetReply(ch, msg, r)
    \/ \E ch \in Channels : \E msg \in held[ch] : TargetDropMessage(ch, msg)
    \/ \E ch \in Channels : TargetDropReceiver(ch)

\* C8: in every inbound queue the messages of one caller to one target
\* stand in the order in which that caller issued the calls.
C8_FifoPerCallerAndTarget ==
    \A ch \in Channels :
        \A i \in 1..Len(inbound[ch]), j \in 1..Len(inbound[ch]) :
            (/\ i < j
             /\ inbound[ch][i].reply_tx[1] = inbound[ch][j].reply_tx[1]
             /\ inbound[ch][i].target = inbound[ch][j].target)
                => inbound[ch][i].reply_tx[2] < inbound[ch][j].reply_tx[2]

\* C8 witness: the queue of "A" holds the first call of c1, then a call of
\* c2, then the second call of c1, all three to "A"
C8_Witness ==
    /\ Len(inbound["ch1"]) = 3
    /\ inbound["ch1"][1] = MeshMessage("c1", 1, "A", "ping", Json("hi"))
    /\ inbound["ch1"][2] = MeshMessage("c2", 1, "A", "ping", Binary("01"))
    /\ inbound["ch1"][3] = MeshMessage("c1", 2, "A", "ping", Json("hi"))


\* the component that owns channel ch answers or drops a message it holds
TargetDispose(ch) ==
    \E msg \in held[ch] :
        \/ \E r \in Replies : TargetReply(ch, msg, r)
        \/ TargetDropMessage(ch, msg)

\* The runtime polls a mesh_call again once its await can make progress: a
\* reply or a dropped reply handle wakes reply_rx.await, a free slot or a
\* closed channel wakes send (tokio serves the waiting senders in order),
\* and a send that has its permit goes on to put its message.
\* Nothing is assumed of the components: one may never take a message, or
\* keep a reply handle for ever.
MeshFairness ==
    \A c \in Callers :
        WF_vars(MeshCallReply(c)) /\ SF_vars(MeshCallSend(c)) /\ WF_vars(MeshCallPush(c))

\* C3 as stated: a mesh_call that waits on a reply slot whose reply handle
\* was dropped returns the receive error (unless its caller drops the call
\* first), and every dispatched call, at the send or at the reply wait,
\* comes to an end.
C3_DroppedReplyResolves ==
    \A c \in Callers :
        /\ (pc[c] = "wait" /\ reply_slot[c].state = "dropped")
              ~> \/ pc[c] = "done" /\ result[c] = RecvError(lookup[c].target)
                 \/ pc[c] = "idle"
        /\ (pc[c] \in {"send", "wait"}) ~> (pc[c] \in {"done", "idle"})

\* C3, amended: a mesh_call that waits on a reply slot whose reply handle
\* was dropped returns the receive error (unless its caller drops the call
\* first); a call whose reply handle was used or dropped, and a call at the
\* send whose channel has lost its Receiver, comes to an end. Nothing ends
\* a call whose component keeps the reply handle or never takes the message.
C3_SettledCallResolves ==
    \A c \in Callers :
        /\ (pc[c] = "wait" /\ reply_slot[c].state = "dropped")
              ~> \/ pc[c] = "done" /\ result[c] = RecvError(lookup[c].target)
                 \/ pc[c] = "idle"
        /\ (pc[c] = "wait" /\ reply_slot[c].state \in {"sent", "dropped"})
              ~> (pc[c] \in {"done", "idle"})
        /\ (pc[c] = "send" /\ ~rx_alive[call[c].sender])
              ~> (pc[c] \in {"done", "idle"})

\* C3 witness: a call has returned the receive error after the Receiver
\* was dropped with the call's message still queued
C3_Witness ==
    \E c \in Callers :
        /\ pc[c] = "done"
        /\ awaited[c].state = "dropped"
        /\ result[c] = RecvError(lookup[c].target)
        /\ ~rx_alive[lookup[c].entry]


\* the router while the component of "A" does nothing at all: it takes no
\* message, answers none and keeps its Receiver; the component of "B" is
\* free to do anything
SlowTargetNext ==
    \/ \E c \in Callers, t \in ComponentIds, m \in Methods : \E p \in PayloadsOf(c) :
          MeshCallLookup(c, t, m, p)
    \/ \E c \in Callers : MeshCallSend(c)
    \/ \E c \in Callers : MeshCallPush(c)
    \/ \E c \in Callers : MeshCallReply(c)
    \/ \E c \in Callers : MeshCallCancel(c)
    \/ TargetRecv("ch2")
    \/ \E r \in Replies : \E msg \in held["ch2"] : TargetReply("ch2", msg, r)
    \/ \E msg \in held["ch2"] : TargetDropMessage("ch2", msg)
    \/ TargetDropReceiver("ch2")

\* The runtime polls a mesh_call whose await can make progress. Nothing is
\* assumed of the component of "A". The case in hand is the one where the
\* component of "B" replies: it takes its messages and uses or drops every
\* reply handle. This is an assumption on that component, not something
\* the kernel brings about.
SlowTargetFairness ==
    /\ MeshFairness
    /\ WF_vars(TargetRecv("ch2")) /\ WF_vars(TargetDispose("ch2"))

\* caller c has a call to target t under way
CallTo(c, t) == pc[c] \in {"send", "push", "wait"} /\ call[c].target = t

\* the message of the call of c was put into its channel after the Receiver
\* was dropped: it lies there with its reply handle, which nobody can take
Stranded(c) ==
    /\ pc[c] = "wait"
    /\ reply_slot[c].state = "pending"
    /\ ~rx_alive[call[c].sender]
    /\ \E i \in 1..Len(inbound[call[c].sender]) :
          inbound[call[c].sender][i].reply_tx = <<c, seq[c]>>

OrphanQueued(ch, c, n) ==
    \E i \in 1..Len(inbound[ch]) :
        inbound[ch][i].reply_tx = <<c, n>> /\ ~SlotLive(inbound[ch][i])
OrphanHeld(ch, c, n) ==
    \E msg \in held[ch] : msg.reply_tx = <<c, n>> /\ ~SlotLive(msg)

\* a step that drops the call of caller c while it waits for the reply
\* leaves every queue, every message taken, the table and every other call
\* as they were
CancelKeepsMessage ==
    \A c \in Callers :
        (pc[c] = "wait" /\ pc'[c] = "idle") =>
            /\ inbound' = inbound
            /\ held' = held
            /\ mesh_router' = mesh_router
            /\ rx_alive' = rx_alive
            /\ \A d \in Callers \ {c} :
                  /\ pc'[d] = pc[d]
                  /\ call'[d] = call[d]
                  /\ reply_slot'[d] = reply_slot[d]
                  /\ result'[d] = result[d]

\* a step in which the component uses or drops the reply handle of a
\* dropped call changes nothing but the component's own hold on that one
\* message
OrphanReplyDiscarded ==
    \A ch \in Channels : \A msg \in held[ch] :
        (~SlotLive(msg) /\ msg \notin held'[ch]) =>
            /\ held' = [held EXCEPT ![ch] = @ \ {msg}]
            /\ inbound' = inbound
            /\ mesh_router' = mesh_router
            /\ rx_alive' = rx_alive
            /\ pc' = pc
            /\ call' = call
            /\ reply_slot' = reply_slot
            /\ result' = result

\* the queued message of a dropped call leaves its queue only into the
\* hands of the component
OrphanLeavesOnlyToTarget ==
    \A ch \in Channels, c \in Callers, n \in 1..MaxCalls :
        OrphanQueued(ch, c, n) =>
            (OrphanQueued(ch, c, n)' \/ OrphanHeld(ch, c, n)')

\* the queued message of a dropped call leaves its queue only into the
\* hands of the component, or when the component drops its Receiver; the
\* messages queued before it stay before it
OrphanLeavesOnlyByTarget ==
    \A ch \in Channels, c \in Callers, n \in 1..MaxCalls :
        OrphanQueued(ch, c, n) =>
            \/ /\ OrphanQueued(ch, c, n)'
               /\ \/ inbound'[ch] = inbound[ch]
                  \/ inbound'[ch] = Tail(inbound[ch])
                  \/ \E msg \in SeqToSet(inbound'[ch]) :
                        inbound'[ch] = Append(inbound[ch], msg)
            \/ /\ OrphanHeld(ch, c, n)'
               /\ Head(inbound[ch]).reply_tx = <<c, n>>
               /\ inbound'[ch] = Tail(inbound[ch])
            \/ /\ rx_alive[ch] /\ ~rx_alive'[ch]
               /\ inbound'[ch] = <<>>

\* C19 as stated: dropping a mesh_call that waits for its reply retracts
\* nothing: the message stays in the queue and is handed to the component,
\* and what the component then does with the reply handle has no effect
\* on the table, on the other messages or on any call.
C19_CancelDoesNotRetract ==
    /\ [][CancelKeepsMessage /\ OrphanReplyDiscarded /\ OrphanLeavesOnlyToTarget]_vars
    /\ \A ch \in Channels, c \in Callers, n \in 1..MaxCalls :
          OrphanQueued(ch, c, n) ~> OrphanHeld(ch, c, n)

\* C19, amended: dropping a mesh_call that waits for its reply retracts
\* nothing: the message stays in the queue, in its place, until the
\* component takes it or drops its Receiver; the component can take the
\* message at the head of its queue whenever it asks; and what the
\* component then does with the reply handle has no effect on the table,
\* on the other messages or on any call.
C19_CancelLeavesMessageToTarget ==
    /\ [][CancelKeepsMessage /\ OrphanReplyDiscarded /\ OrphanLeavesOnlyByTarget]_vars
    /\ [](\A ch \in Channels :
            (rx_alive[ch] /\ inbound[ch] # <<>>) => ENABLED TargetRecv(ch))

\* C19 witness: the call of c1 to "B" was dropped, and its message is in
\* the hands of the component of "B", while c2 waits for its own reply
C19_Witness ==
    /\ pc["c1"] = "idle"
    /\ seq["c1"] = 1
    /\ OrphanHeld("ch2", "c1", 1)
    /\ MeshMessage("c1", 1, "B", "ping", Json("hi")) \in held["ch2"]
    /\ pc["c2"] = "wait"
    /\ reply_slot["c2"].state = "pending"


\* a step of a mesh_call (its position or its result moves) leaves every
\* entry of the table as it was, and the table only ever changes to what
\* register_component was last given
TableOnlyByRegister ==
    /\ (pc' # pc \/ result' # result \/ seq' # seq) => mesh_router' = mesh_router
    /\ \A id \in ComponentIds :
          mesh_router'[id] # mesh_router[id] =>
              /\ mesh_router'[id] = last_registered'[id]
              /\ mesh_router'[id] # NoSender

\* a queue grows by one message at a time, the message of a call that
\* passes from its send to its reply wait, and no other queue grows with it
OneMessagePerCall ==
    \A ch \in Channels :
        Len(inbound'[ch]) > Len(inbound[ch]) =>
            \E c \in Callers :
                /\ pc[c] = "push" /\ pc'[c] = "wait"
                /\ seq'[c] = seq[c]
                /\ call[c].sender = ch
                /\ inbound'[ch] =
                      Append(inbound[ch],
                             MeshMessage(c, seq[c], call[c].target, call[c].method,
                                         call[c].payload))
                /\ \A x \in Channels \ {ch} : Len(inbound'[x]) <= Len(inbound[x])

\* a call never goes back: past its send it never sends again, and once it
\* has returned it stays returned, with its result, until its caller
\* issues the next call
NeverRetried ==
    \A c \in Callers :
        /\ pc[c] = "wait" => pc'[c] \in {"wait", "done", "idle"}
        /\ pc[c] = "push" => pc'[c] \in {"push", "wait"}
        /\ pc[c] = "send" => pc'[c] \in {"send", "push", "done", "idle"}
        /\ (pc[c] = "done" /\ seq'[c] = seq[c]) =>
              /\ pc'[c] = "done"
              /\ result'[c] = result[c]
        /\ seq'[c] \in {seq[c], seq[c] + 1}
        /\ seq'[c] = seq[c] + 1 => pc[c] \in {"idle", "done"}

\* an entry whose Receiver is dropped stays as it is, dead, until
\* register_component is called for its id
DeadEntryStays ==
    \A id \in ComponentIds :
        (mesh_router[id] # NoSender /\ ~rx_alive[mesh_router[id]]) =>
            \/ mesh_router'[id] = mesh_router[id] /\ ~rx_alive'[mesh_router'[id]]
            \/ /\ mesh_router'[id] = last_registered'[id]
               /\ pc' = pc /\ seq' = seq /\ result' = result /\ inbound' = inbound

\* C21: mesh_call never changes the dispatch table and puts at most one
\* message into a queue per call; a call that failed is not tried again by
\* the router; an entry whose Receiver was dropped stays in the table
\* until register_component is called for its id, and every call that finds
\* it returns the send-failure error, with no message of it anywhere.
C21_NoRetryTableUntouched ==
    /\ [][TableOnlyByRegister /\ OneMessagePerCall /\ NeverRetried /\ DeadEntryStays]_vars
    /\ [](\A c \in Callers :
            /\ \A n \in 1..seq[c] : Copies(Channels, <<c, n>>) <= 1
            /\ (pc[c] = "done" /\ lookup[c].entry # NoSender /\ lookup[c].rx_dead) =>
                  /\ result[c] = SendError(lookup[c].target)
                  /\ Copies(Channels, Handle(c)) = 0)

\* C21 witness: the second call of c1 in a row has returned the
\* send-failure error for "A", whose entry is still the channel with the
\* dropped Receiver; nothing was ever put into that channel
C21_Witness ==
    /\ seq["c1"] = 2
    /\ pc["c1"] = "done"
    /\ lookup["c1"].target = "A"
    /\ lookup["c1"].rx_dead
    /\ result["c1"] = SendError("A")
    /\ mesh_router["A"] = lookup["c1"].entry
    /\ ~rx_alive[mesh_router["A"]]
    /\ inbound[mesh_router["A"]] = <<>>
    /\ held[mesh_router["A"]] = {}

(* ------------------------------------------------------------------ *)
(* host.rs: begin_session / commit_session over the SessionManager     *)
(* ------------------------------------------------------------------ *)

\* sessions begin_session issues in one run
MaxSessions == 2

SessionThreads == {"t1", "t2"}
\* the ids begin_session can issue, and one it never issues
SessionIds == 1..(MaxSessions + 1)
BasePaths == {"/workspace", ""}

NoSessionResult == [op |-> "none", id |-> 0, ok |-> FALSE, error |-> "", was |-> ""]

\* BrioHostState::new: session_manager is Mutex::new(SessionManager::new())
SessionInit ==
    /\ sessions = [id \in SessionIds |-> "unissued"]
    /\ next_session = 1
    /\ session_mutex = "free"
    /\ s_pc = [t \in SessionThreads |-> "idle"]
    /\ s_arg = [t \in SessionThreads |-> 0]
    /\ s_result = [t \in SessionThreads |-> NoSessionResult]
    /\ ok_commits = [id \in SessionIds |-> 0]

\* self.session_manager.lock(): the caller gets the guard once no other
\* thread holds it
MutexNeverBlocks(m) == TRUE
MutexAcquirable(m) == m = "free"

\* SessionManager::begin_session: base_path must be a path of the resource tree
ValidBasePath(p) == p # ""

\* begin_session(base_path): the whole body runs under the guard; the
\* manager allocates a fresh session and returns its id
BeginSession(t, p) ==
    /\ s_pc[t] = "idle"
    /\ MutexAcquirable(session_mutex)
    /\ next_session <= MaxSessions
    /\ IF ValidBasePath(p)
         THEN /\ sessions' = [sessions EXCEPT ![next_session] = "open"]
              /\ next_session' = next_session + 1
              /\ s_result' = [s_result EXCEPT ![t] =
                    [op |-> "begin", id |-> next_session, ok |-> TRUE,
                     error |-> "", was |-> "unissued"]]
         ELSE /\ s_result' = [s_result EXCEPT ![t] =
                    [op |-> "begin", id |-> 0, ok |-> FALSE,
                     error |-> "invalid base path", was |-> ""]]
              /\ UNCHANGED <<sessions, next_session>>
    /\ UNCHANGED <<session_mutex, s_pc, s_arg, ok_commits>>
    /\ UNCHANGED <<mesh_vars, store_vars, bcast_vars, registry_vars, cluster_vars,
                   stub_vars>>

\* commit_session(session_id), line 100: the guard is taken
CommitSessionLock(t, id) ==
    /\ s_pc[t] = "idle"
    /\ MutexAcquirable(session_mutex)
    /\ session_mutex' = t
    /\ s_pc' = [s_pc EXCEPT ![t] = "commit"]
    /\ s_arg' = [s_arg EXCEPT ![t] = id]
    /\ s_result' = [s_result EXCEPT ![t] =
          [op |-> "commit", id |-> id, ok |-> FALSE, error |-> "",
           was |-> sessions[id]]]
    /\ UNCHANGED <<sessions, next_session, ok_commits>>
    /\ UNCHANGED <<mesh_vars, store_vars, bcast_vars, registry_vars, cluster_vars,
                   stub_vars>>

\* SessionManager::commit_session, first half: the session is looked up;
\* an id that is not open is the "unknown session" error, and the guard is
\* released on return
CommitSessionCheck(t) ==
    /\ s_pc[t] = "commit"
    /\ IF sessions[s_arg[t]] = "open"
         THEN /\ s_pc' = [s_pc EXCEPT ![t] = "apply"]
              /\ UNCHANGED <<session_mutex, s_result>>
         ELSE /\ s_pc' = [s_pc EXCEPT ![t] = "idle"]
              /\ session_mutex' = "free"
              /\ s_result' = [s_result EXCEPT ![t].error = "unknown session"]
    /\ UNCHANGED <<sessions, next_session, s_arg, ok_commits>>
    /\ UNCHANGED <<mesh_vars, store_vars, bcast_vars, registry_vars, cluster_vars,
                   stub_vars>>

\* SessionManager::commit_session, second half: the staged mutations are
\* applied, the session is committed, Ok(()) is returned and the guard released
CommitSessionApply(t) ==
    /\ s_pc[t] = "apply"
    /\ sessions' = [sessions EXCEPT ![s_arg[t]] = "committed"]
    /\ s_pc' = [s_pc EXCEPT ![t] = "idle"]
    /\ session_mutex' = "free"
    /\ s_result' = [s_result EXCEPT ![t].ok = TRUE]
    /\ ok_commits' = [ok_commits EXCEPT ![s_arg[t]] = @ + 1]
    /\ UNCHANGED <<next_session, s_arg>>
    /\ UNCHANGED <<mesh_vars, store_vars, bcast_vars, registry_vars, cluster_vars,
                   stub_vars>>

SessionNext ==
    \/ \E t \in SessionThreads, p \in BasePaths : BeginSession(t, p)
    \/ \E t \in SessionThreads, id \in SessionIds : CommitSessionLock(t, id)
    \/ \E t \in SessionThreads : CommitSessionCheck(t)
    \/ \E t \in SessionThreads : CommitSessionApply(t)

\* C5: a session id is committed at most once. A commit_session that finds
\* its id open (issued by begin_session, not yet committed) succeeds; one
\* that finds it committed already, or never issued, fails with the session
\* error; this with the calls of several threads interleaved under the mutex.
C5_CommitOnce ==
    /\ \A id \in SessionIds :
          /\ ok_commits[id] <= 1
          /\ ok_commits[id] = 1 <=> sessions[id] = "committed"
          /\ sessions[id] # "unissued" <=> id < next_session
    /\ \A t \in SessionThreads :
          (s_result[t].op = "commit" /\ s_pc[t] = "idle") =>
              /\ s_result[t].ok <=> s_result[t].was = "open"
              /\ ~s_result[t].ok => s_result[t].error = "unknown session"
    /\ \A t \in SessionThreads :
          (s_result[t].op = "begin" /\ s_result[t].ok) =>
              sessions[s_result[t].id] # "unissued"

\* C5 witness: session 1 was committed by one thread, and the other thread's
\* later commit of it and a commit of a never-issued id have both failed
C5_Witness ==
    /\ sessions[1] = "committed"
    /\ ok_commits[1] = 1
    /\ \E t \in SessionThreads :
          /\ s_pc[t] = "idle"
          /\ s_result[t] = [op |-> "commit", id |-> 1, ok |-> FALSE,
                            error |-> "unknown session", was |-> "committed"]
    /\ \E t \in SessionThreads :
          /\ s_pc[t] = "idle"
          /\ s_result[t].op = "commit"
          /\ s_result[t].was = "unissued"
          /\ ~s_result[t].ok


(* ------------------------------------------------------------------ *)
(* host.rs: get_store, over SqlStore and PrefixPolicy                  *)
(* ------------------------------------------------------------------ *)

Scopes == {"a", "b"}
Keys == {"k1", "k2"}
Values == {"v1", "v2"}

\* get_store(_scope): SqlStore::new(self.db_pool.clone(), Box::new(PrefixPolicy)).
\* The scope is not used: the store holds the shared pool and the stateless
\* policy, whatever scope it was asked for.
GetStore(scope) == [pool |-> "db_pool", policy |-> "PrefixPolicy"]

\* PrefixPolicy: every key is rewritten under the prefix of the scope the
\* operation is issued under
PrefixPolicy(scope, key) == <<scope, key>>

NoRow == [found |-> FALSE, value |-> "", via |-> ""]
StoreKeys == {PrefixPolicy(sc, k) : sc \in Scopes, k \in Keys}

\* BrioHostState::new: the pool of an empty database
StoreInit ==
    /\ db = [rk \in StoreKeys |-> NoRow]
    /\ last_query = [via |-> "", scope |-> "", key |-> "", row |-> NoRow]

\* SqlStore::execute through the store of get_store(gs): the policy rewrites
\* the key of the operation, then the backend of store.pool is written.
\* The store carries no scope, so the scope the policy sees is the one the
\* operation names. The row remembers which get_store it was written through.
StoreExecute(gs, scope, key, value) ==
    /\ LET store == GetStore(gs)
       IN /\ store.policy = "PrefixPolicy"
          /\ db' = [db EXCEPT ![PrefixPolicy(scope, key)] =
                      [found |-> TRUE, value |-> value, via |-> gs]]
    /\ UNCHANGED last_query
    /\ UNCHANGED <<mesh_vars, session_vars, bcast_vars, registry_vars, cluster_vars,
                   stub_vars>>

\* SqlStore::query through the store of get_store(gs)
StoreQuery(gs, scope, key) ==
    /\ LET store == GetStore(gs)
       IN /\ store.policy = "PrefixPolicy"
          /\ last_query' = [via |-> gs, scope |-> scope, key |-> key,
                            row |-> db[PrefixPolicy(scope, key)]]
    /\ UNCHANGED db
    /\ UNCHANGED <<mesh_vars, session_vars, bcast_vars, registry_vars, cluster_vars,
                   stub_vars>>

StoreNext ==
    \/ \E gs \in Scopes, sc \in Scopes, k \in Keys, v \in Values :
          StoreExecute(gs, sc, k, v)
    \/ \E gs \in Scopes, sc \in Scopes, k \in Keys : StoreQuery(gs, sc, k)

\* C4: for scopes a # b, a key written through the store of get_store(a) is
\* never visible to a read of the same logical key through the store of
\* get_store(b): a query through the store of one scope returns no row that
\* was written through the store of another scope.
C4_ScopeIsolation ==
    last_query.row.found => last_query.row.via = last_query.via


(* ------------------------------------------------------------------ *)
(* host.rs: with_provider, registry, inference, inference_by_name,     *)
(* over the ProviderRegistry                                           *)
(* ------------------------------------------------------------------ *)

\* the names providers are registered under, and a name nothing is
\* ever registered under
ProviderNames == {"default", "alt"}
LookupNames == ProviderNames \cup {"missing"}
\* Arc<dyn LLMProvider>: the implementations
Providers == {"openai", "local"}
NoProvider == "none"

\* Option<Arc<dyn LLMProvider>>
Some(p) == [kind |-> "Some", value |-> p]
None == [kind |-> "None", value |-> NoProvider]
NoRegistryOut == [op |-> "none", name |-> "", out |-> None]
NoRegistryHist == [built_with |-> NoProvider, touched |-> FALSE, marked |-> "",
                   registered |-> {}]

\* ProviderRegistry::new: no entry, no default
RegistryNew == [entries |-> [n \in ProviderNames |-> NoProvider], default |-> ""]

\* ProviderRegistry::register_arc(name, provider): the entry is installed
\* or overwritten
RegisterArc(reg, name, p) == [reg EXCEPT !.entries[name] = p]

\* ProviderRegistry::set_default(name): the name is marked default
SetDefault(reg, name) == [reg EXCEPT !.default = name]

\* ProviderRegistry::get(name): the entry, or an empty result
Get(reg, name) ==
    IF name \in DOMAIN reg.entries /\ reg.entries[name] # NoProvider
      THEN Some(reg.entries[name]) ELSE None

\* ProviderRegistry::get_default(): the entry of the name marked default
GetDefault(reg) == IF reg.default = "" THEN None ELSE Get(reg, reg.default)

\* with_provider, lines 38-40: a new registry with the provider registered
\* as "default" and "default" marked default
WithProviderNoDefault(p) == RegisterArc(RegistryNew, "default", p)
WithProvider(p) == SetDefault(RegisterArc(RegistryNew, "default", p), "default")

\* the registry the kernel holds
Registry == [entries |-> reg_entries, default |-> reg_default]

\* BrioHostState::new(db_url, registry) with a new, empty registry
RegistryInit ==
    /\ reg_entries = RegistryNew.entries
    /\ reg_default = RegistryNew.default
    /\ reg_out = NoRegistryOut
    /\ reg_hist = NoRegistryHist

\* BrioHostState::with_provider(db_url, provider)
RegistryWithProviderInit ==
    \E p \in Providers :
        /\ reg_entries = WithProvider(p).entries
        /\ reg_default = WithProvider(p).default
        /\ reg_out = NoRegistryOut
        /\ reg_hist = [built_with |-> p, touched |-> FALSE, marked |-> "default",
                       registered |-> {"default"}]

\* registry().register_arc(name, provider)
RegistryRegister(name, p) ==
    /\ reg_entries' = RegisterArc(Registry, name, p).entries
    /\ reg_default' = RegisterArc(Registry, name, p).default
    /\ reg_out' = NoRegistryOut
    /\ reg_hist' = [reg_hist EXCEPT !.touched = TRUE,
                                    !.registered = @ \cup {name}]
    /\ UNCHANGED <<mesh_vars, session_vars, store_vars, bcast_vars, cluster_vars,
                   stub_vars>>

\* registry().set_default(name)
RegistrySetDefault(name) ==
    /\ reg_entries' = SetDefault(Registry, name).entries
    /\ reg_default' = SetDefault(Registry, name).default
    /\ reg_out' = NoRegistryOut
    /\ reg_hist' = [reg_hist EXCEPT !.touched = TRUE, !.marked = name]
    /\ UNCHANGED <<mesh_vars, session_vars, store_vars, bcast_vars, cluster_vars,
                   stub_vars>>

\* inference(): self.provider_registry.get_default()
Inference ==
    /\ reg_out' = [op |-> "inference", name |-> "", out |-> GetDefault(Registry)]
    /\ UNCHANGED <<reg_entries, reg_default, reg_hist>>
    /\ UNCHANGED <<mesh_vars, session_vars, store_vars, bcast_vars, cluster_vars,
                   stub_vars>>

\* inference_by_name(name): self.provider_registry.get(name)
InferenceByName(name) ==
    /\ reg_out' = [op |-> "inference_by_name", name |-> name,
                   out |-> Get(Registry, name)]
    /\ UNCHANGED <<reg_entries, reg_default, reg_hist>>
    /\ UNCHANGED <<mesh_vars, session_vars, store_vars, bcast_vars, cluster_vars,
                   stub_vars>>

RegistryNext ==
    \/ \E n \in ProviderNames, p \in Providers : RegistryRegister(n, p)
    \/ \E n \in LookupNames : RegistrySetDefault(n)
    \/ Inference
    \/ \E n \in LookupNames : InferenceByName(n)

\* C14: inference() returns the implementation registered under the name
\* most recently marked default (nothing while no name is marked or nothing
\* is registered under it), inference_by_name of a name never registered
\* returns the empty result, and a kernel built with with_provider(p), its
\* registry untouched since, returns p from inference() and from
\* inference_by_name("default").
C14_RegistryLookups ==
    /\ reg_out.op = "inference" =>
          IF reg_hist.marked \in reg_hist.registered
            THEN reg_out.out = Some(reg_entries[reg_hist.marked])
            ELSE reg_out.out = None
    /\ (reg_out.op = "inference_by_name" /\ reg_out.name \notin reg_hist.registered) =>
          reg_out.out = None
    /\ (reg_hist.built_with # NoProvider /\ ~reg_hist.touched) =>
          /\ reg_out.op = "inference" => reg_out.out = Some(reg_hist.built_with)
          /\ (reg_out.op = "inference_by_name" /\ reg_out.name = "default") =>
                reg_out.out = Some(reg_hist.built_with)

\* C14 witness: "default" and "alt" are registered with different
\* implementations, "alt" was marked default last, and inference() has
\* returned the implementation of "alt"
C14_Witness ==
    /\ reg_hist.marked = "alt"
    /\ reg_hist.built_with = "openai"
    /\ reg_entries["alt"] = "local"
    /\ reg_entries["default"] = "openai"
    /\ reg_out = [op |-> "inference", name |-> "", out |-> Some("local")]

(* ------------------------------------------------------------------ *)
(* host.rs / main.rs: standalone and distributed mode                  *)
(* ------------------------------------------------------------------ *)

NoNode == ""

\* BrioHostState::new: the kernel is standalone, there is no cluster
ClusterInit ==
    /\ node_id = NoNode
    /\ cluster = [id \in ComponentIds |-> NoNode]

\* the nodes of the cluster: this kernel and a peer
Nodes == {"n1", "n2"}

\* main.rs, lines 49-57: with BRIO_NODE_ID set the kernel is built in
\* distributed mode under that NodeId; membership says which peer serves
\* the components that are not local (here "B" on n2, or nobody)
DistributedInit ==
    /\ node_id = "n1"
    /\ cluster \in {[id \in ComponentIds |-> NoNode],
                     [id \in ComponentIds |-> IF id = "B" THEN "n2" ELSE NoNode]}

\* C15: in distributed mode a mesh_call whose target is absent from the
\* local table is forwarded to the node that serves the target: it returns
\* the not-found error only when no node of the cluster serves the target.
C15_DistributedFallback ==
    \A c \in Callers :
        (/\ node_id # NoNode
         /\ lookup[c].target # ""
         /\ lookup[c].entry = NoSender
         /\ pc[c] = "done"
         /\ result[c] = NotFoundError(lookup[c].target))
            => cluster[lookup[c].target] = NoNode

(* ------------------------------------------------------------------ *)
(* components/supervisor/src/wit_bindings.rs                           *)
(* ------------------------------------------------------------------ *)

\* guest entry point calls of one run
MaxStubCalls == 3

Sqls == {"SELECT v FROM t", "DELETE FROM t", ""}
ParamLists == {<<>>, <<"x">>}
CallTargets == ComponentIds \cup {"missing"}

\* Result<Vec<Row>, String>, Result<u32, String>, Result<Payload, String>
\* of the three entry points, with the arguments of the call
StubRows(rows) == [ok |-> TRUE, rows |-> rows, affected |-> 0, payload |-> NoPayload,
                   error |-> ""]
StubAffected(n) == [ok |-> TRUE, rows |-> <<>>, affected |-> n, payload |-> NoPayload,
                    error |-> ""]
StubPayload(p) == [ok |-> TRUE, rows |-> <<>>, affected |-> 0, payload |-> p,
                   error |-> ""]
StubError(e) == [ok |-> FALSE, rows |-> <<>>, affected |-> 0, payload |-> NoPayload,
                 error |-> e]
NoStubOut == [fn |-> "none", args |-> <<>>, out |-> StubError("")]

\* what the host's generated bindings (wit::query, wit::execute, wit::call)
\* may answer to a guest
HostQueryResults == {StubRows(<<>>), StubRows(<<"row">>), StubError("host error")}
HostExecuteResults == {StubAffected(0), StubAffected(1), StubError("host error")}
HostCallResults == {StubPayload(Json("pong")), StubError("host error")}

\* sql_state::query, lines 38-43: let _ = (sql, params); Ok(vec![])
QueryNativeEcho(sql, params) == StubRows(params)
QueryNative(sql, params) == StubRows(<<>>)

\* sql_state::execute, lines 57-62: let _ = (sql, params); Ok(0)
ExecuteNative(sql, params) == StubAffected(0)

\* service_mesh::call, lines 97-102: let _ = (target, method, args);
\* Ok(Payload::Json(r#"{"status":"accepted"}"#))
CallNative(target, method, args) == StubPayload(Json("{\"status\":\"accepted\"}"))

\* the supervisor built for the host (cfg(not(target_arch = "wasm32")))
StubInit ==
    /\ target_arch = "native"
    /\ stub_out = NoStubOut
    /\ stub_calls = 0
    /\ wit_calls = 0

\* the supervisor built for either target
StubAnyArchInit ==
    /\ target_arch \in {"native", "wasm32"}
    /\ stub_out = NoStubOut
    /\ stub_calls = 0
    /\ wit_calls = 0

\* one call of an entry point: the stub's result on the host, the answer
\* of the host's bindings in the sandbox
StubCall(fn, args, native, hosted) ==
    /\ stub_calls < MaxStubCalls
    /\ stub_calls' = stub_calls + 1
    /\ IF target_arch = "wasm32"
         THEN /\ \E r \in hosted : stub_out' = [fn |-> fn, args |-> args, out |-> r]
              /\ wit_calls' = wit_calls + 1
         ELSE /\ stub_out' = [fn |-> fn, args |-> args, out |-> native]
              /\ UNCHANGED wit_calls
    /\ UNCHANGED target_arch
    /\ UNCHANGED <<mesh_vars, session_vars, store_vars, bcast_vars, registry_vars,
                   cluster_vars>>

\* sql_state::query(sql, params)
StubQuery(sql, params) ==
    StubCall("query", <<sql>> \o params, QueryNative(sql, params), HostQueryResults)

\* sql_state::execute(sql, params)
StubExecute(sql, params) ==
    StubCall("execute", <<sql>> \o params, ExecuteNative(sql, params),
             HostExecuteResults)

\* service_mesh::call(target, method, args)
StubMeshCall(target, method, args) ==
    StubCall("call", <<target, method, args.tag, args.data>>,
             CallNative(target, method, args), HostCallResults)

StubNext ==
    \/ \E sql \in Sqls, ps \in ParamLists : StubQuery(sql, ps)
    \/ \E sql \in Sqls, ps \in ParamLists : StubExecute(sql, ps)
    \/ \E t \in CallTargets, m \in Methods, p \in Payloads : StubMeshCall(t, m, p)

\* C16: built for anything but wasm32, query returns Ok with no rows,
\* execute Ok(0) and call Ok(Json({"status":"accepted"})), whatever the
\* arguments and however many calls came before; none returns an error and
\* none hands anything on to the host.
C16_NativeStubs ==
    target_arch # "wasm32" =>
        /\ wit_calls = 0
        /\ stub_out.fn # "none" => stub_out.out.ok /\ stub_out.out.error = ""
        /\ stub_out.fn = "query" => stub_out.out = StubRows(<<>>)
        /\ stub_out.fn = "execute" => stub_out.out = StubAffected(0)
        /\ stub_out.fn = "call" =>
              stub_out.out = StubPayload(Json("{\"status\":\"accepted\"}"))

\* C16 witness: on the host, the third call in a row is a query with a
\* parameter, and it has returned no rows
C16_Witness ==
    /\ target_arch = "native"
    /\ stub_calls = 3
    /\ stub_out = [fn |-> "query", args |-> <<"SELECT v FROM t", "x">>,
                   out |-> StubRows(<<>>)]

(* ------------------------------------------------------------------ *)
(* ws/broadcaster.rs: Broadcaster, BroadcastReceiver                   *)
(* ------------------------------------------------------------------ *)

\* const BROADCAST_CAPACITY: usize = 256
BROADCAST_CAPACITY == 256
\* broadcast calls of one run
MaxBroadcasts == 3
\* recv calls of one run that return
MaxRecvs == 3

Receivers == {"r1", "r2"}
\* the kernel's Broadcaster and a clone of it: both hold the same channel
\* and the same counter
Broadcasters == {"host", "clone"}

\* enum BroadcastMessage { Patch(WsPatch), Shutdown }
Shutdown == [kind |-> "Shutdown", patch |-> ""]
Patch(p) == [kind |-> "Patch", patch |-> p]
NoMessage == [kind |-> "none", patch |-> ""]
PatchIds == {"p1"}
BroadcastMessages == {Shutdown} \cup {Patch(p) : p \in PatchIds}

\* Result<BroadcastMessage, WsError> of recv(); skipped is the count the
\* warn! of a lagged receive logs
RecvOk(m) == [kind |-> "Ok", msg |-> m, error |-> "", skipped |-> 0]
RecvErr(e, n) == [kind |-> "Err", msg |-> NoMessage, error |-> e, skipped |-> n]
NoRecv == [kind |-> "none", msg |-> NoMessage, error |-> "", skipped |-> 0]

\* via: the Broadcaster a subscribe() in progress was called on and borrows
NoBroadcaster == ""
NoReceiver == [st |-> "none", next |-> 0, via |-> NoBroadcaster]
\* history of a receiver: the channel position at its subscribe, the recv()s
\* it has done, whether it was ever overrun, and the places in the sequence
\* of broadcasts of the last two messages its recv() returned
NoHist == [sub_pos |-> 0, nrecv |-> 0, overrun |-> FALSE, got |-> 0, prev |-> 0]

\* what broadcast() returned, as which entry point, and how many Receivers
\* the channel had
NoBroadcast == [op |-> "none", result |-> "none", error |-> "", receivers |-> 0]

\* Broadcaster::new: a channel of BROADCAST_CAPACITY with its first Receiver
\* dropped at once, and a counter at 0
BroadcastInit ==
    /\ client_count = 0
    /\ bc_pos = 0
    /\ bc_buf = <<>>
    /\ rx_cnt = 0
    /\ rcv = [r \in Receivers |-> NoReceiver]
    /\ last_recv = [r \in Receivers |-> NoRecv]
    /\ last_bcast = NoBroadcast
    /\ bc_senders = Broadcasters
    /\ n_bcast = 0
    /\ n_recv = 0
    /\ bc_sent = <<>>
    /\ rcv_hist = [r \in Receivers |-> NoHist]

\* the Broadcaster after r1 subscribed and BROADCAST_CAPACITY - 1 patches were
\* broadcast, none of which r1 has received yet
BroadcastBacklogInit ==
    /\ client_count = 1
    /\ bc_pos = BROADCAST_CAPACITY - 1
    /\ bc_buf = [i \in 1..(BROADCAST_CAPACITY - 1) |-> Patch("p1")]
    /\ rx_cnt = 1
    /\ rcv = [r \in Receivers |->
                IF r = "r1" THEN [st |-> "live", next |-> 0, via |-> NoBroadcaster]
                ELSE NoReceiver]
    /\ last_recv = [r \in Receivers |-> NoRecv]
    /\ last_bcast = [op |-> "broadcast", result |-> "Ok", error |-> "",
                     receivers |-> 1]
    /\ bc_senders = Broadcasters
    /\ n_bcast = 0
    /\ n_recv = 0
    /\ bc_sent = bc_buf
    /\ rcv_hist = [r \in Receivers |-> NoHist]

\* client_count.fetch_add(1, SeqCst)
FetchAdd(n) == n + 1
\* client_count.fetch_sub(1, SeqCst); -1 stands for the wrapped usize::MAX
FetchSubNothing(n) == n
FetchSub(n) == n - 1

\* subscribe(), line 28: the counter is raised first
SubscribeCount(b, r) ==
    /\ b \in bc_senders
    /\ rcv[r].st = "none"
    /\ client_count' = FetchAdd(client_count)
    /\ rcv' = [rcv EXCEPT ![r] = [st |-> "subscribing", next |-> 0, via |-> b]]
    /\ UNCHANGED <<bc_pos, bc_buf, rx_cnt, last_recv, last_bcast, bc_senders, n_bcast,
                   n_recv, bc_sent, rcv_hist>>
    /\ UNCHANGED <<mesh_vars, session_vars, store_vars, registry_vars, cluster_vars,
                   stub_vars>>

\* subscribe(), lines 30-33: self.sender.subscribe() gives a Receiver that
\* starts at the channel's position, and the handle is returned
SubscribeInner(r) ==
    /\ rcv[r].st = "subscribing"
    /\ rcv' = [rcv EXCEPT ![r] = [st |-> "live", next |-> bc_pos, via |-> NoBroadcaster]]
    /\ rx_cnt' = rx_cnt + 1
    /\ last_recv' = [last_recv EXCEPT ![r] = NoRecv]
    /\ rcv_hist' = [rcv_hist EXCEPT ![r] =
                      [sub_pos |-> bc_pos, nrecv |-> 0, overrun |-> FALSE,
                       got |-> 0, prev |-> 0]]
    /\ UNCHANGED <<client_count, bc_pos, bc_buf, last_bcast, bc_senders, n_bcast, n_recv,
                   bc_sent>>
    /\ UNCHANGED <<mesh_vars, session_vars, store_vars, registry_vars, cluster_vars,
                   stub_vars>>

\* the channel keeps the newest BROADCAST_CAPACITY messages
Retain(buf) ==
    IF Len(buf) > BROADCAST_CAPACITY
      THEN SubSeq(buf, Len(buf) - BROADCAST_CAPACITY + 1, Len(buf))
      ELSE buf

\* broadcast::Sender::send: an error when the channel has no Receiver, else
\* the number of Receivers the message was stored for
SenderSend(n) == [ok |-> n > 0, receivers |-> n]

\* broadcast(message), lines 37-46: both arms of the match return Ok(())
BroadcastResultOfSend(sent) == IF sent.ok THEN "Ok" ELSE "Err"
BroadcastResult(sent) == "Ok"

\* broadcast_patch, line 64: map_err(|e| anyhow!("Broadcast failed: {}", e))
BroadcastPatchResult(res) ==
    IF res = "Ok" THEN [result |-> "Ok", error |-> ""]
    ELSE [result |-> "Err", error |-> "Broadcast failed"]

\* the body of broadcast(message), called as entry point op: sender.send
\* stores the message when the channel has a Receiver and stores nothing
\* when it has none; it never waits
DoBroadcast(b, m, op) ==
    /\ b \in bc_senders
    /\ n_bcast < MaxBroadcasts
    /\ n_bcast' = n_bcast + 1
    /\ LET sent == SenderSend(rx_cnt)
           res == BroadcastResult(sent)
       IN last_bcast' =
            IF op = "broadcast_patch"
              THEN [op |-> op, result |-> BroadcastPatchResult(res).result,
                    error |-> BroadcastPatchResult(res).error,
                    receivers |-> sent.receivers]
              ELSE [op |-> op, result |-> res, error |-> "",
                    receivers |-> sent.receivers]
    /\ IF ~SenderSend(rx_cnt).ok
         THEN UNCHANGED <<bc_pos, bc_buf, bc_sent, rcv_hist>>
         ELSE /\ bc_pos' = bc_pos + 1
              /\ bc_buf' = Retain(Append(bc_buf, m))
              /\ bc_sent' = Append(bc_sent, m)
              /\ rcv_hist' = [r \in Receivers |->
                    IF rcv[r].st \in {"live", "dropping"}
                       /\ bc_pos + 1 - rcv[r].next > BROADCAST_CAPACITY
                      THEN [rcv_hist[r] EXCEPT !.overrun = TRUE]
                      ELSE rcv_hist[r]]
    /\ UNCHANGED <<client_count, rx_cnt, rcv, last_recv, bc_senders, n_recv>>
    /\ UNCHANGED <<mesh_vars, session_vars, store_vars, registry_vars, cluster_vars,
                   stub_vars>>

\* Broadcaster::broadcast(message) on Broadcaster b
Broadcast(b, m) == DoBroadcast(b, m, "broadcast")

\* BrioHostState::broadcast_patch(patch): the kernel's own Broadcaster
BroadcastPatch(p) == DoBroadcast("host", Patch(p), "broadcast_patch")

\* the retained message stored at channel position pos (counted from 0)
SlotNewest(pos) == bc_buf[Len(bc_buf)]
SlotAt(pos) == bc_buf[pos - (bc_pos - Len(bc_buf)) + 1]

\* the Receiver's cursor is behind the oldest retained message
LaggedAny(next) ==
    \E r \in Receivers : rcv[r].st = "live" /\ bc_pos - rcv[r].next > BROADCAST_CAPACITY
Lagged(next) == bc_pos - next > BROADCAST_CAPACITY

\* the Receiver's cursor after it has taken the message it pointed at
AdvanceStay(next) == next
Advance(next) == next + 1

\* every Sender of the channel is dropped
Closed == bc_senders = {}

\* recv(): self.inner.recv().await, with both errors mapped to
\* WsError::ChannelClosed. A lagged Receiver is moved to the oldest retained
\* message and the number it missed is logged; otherwise the message at the
\* cursor is returned; with no message past the cursor the call returns the
\* error once the channel is closed and stays suspended until then.
Recv(r) ==
    /\ rcv[r].st = "live"
    /\ rcv[r].next < bc_pos \/ Closed
    /\ n_recv < MaxRecvs
    /\ n_recv' = n_recv + 1
    /\ IF Lagged(rcv[r].next)
         THEN /\ last_recv' = [last_recv EXCEPT ![r] =
                    RecvErr("ChannelClosed", bc_pos - BROADCAST_CAPACITY - rcv[r].next)]
              /\ rcv' = [rcv EXCEPT ![r].next = bc_pos - BROADCAST_CAPACITY]
              /\ rcv_hist' = [rcv_hist EXCEPT ![r].nrecv = @ + 1]
         ELSE IF rcv[r].next < bc_pos
         THEN /\ last_recv' = [last_recv EXCEPT ![r] = RecvOk(SlotAt(rcv[r].next))]
              /\ rcv' = [rcv EXCEPT ![r].next = Advance(@)]
              /\ rcv_hist' = [rcv_hist EXCEPT ![r].nrecv = @ + 1,
                                               ![r].prev = rcv_hist[r].got,
                                               ![r].got = rcv[r].next + 1]
         ELSE /\ last_recv' = [last_recv EXCEPT ![r] = RecvErr("ChannelClosed", 0)]
              /\ rcv_hist' = [rcv_hist EXCEPT ![r].nrecv = @ + 1]
              /\ UNCHANGED rcv
    /\ UNCHANGED <<client_count, bc_pos, bc_buf, rx_cnt, last_bcast, bc_senders, n_bcast,
                   bc_sent>>
    /\ UNCHANGED <<mesh_vars, session_vars, store_vars, registry_vars, cluster_vars,
                   stub_vars>>

\* Drop for BroadcastReceiver, line 83: the counter is lowered first
DropCount(r) ==
    /\ rcv[r].st = "live"
    /\ client_count' = FetchSub(client_count)
    /\ rcv' = [rcv EXCEPT ![r].st = "dropping"]
    /\ UNCHANGED <<bc_pos, bc_buf, rx_cnt, last_recv, last_bcast, bc_senders, n_bcast,
                   n_recv, bc_sent, rcv_hist>>
    /\ UNCHANGED <<mesh_vars, session_vars, store_vars, registry_vars, cluster_vars,
                   stub_vars>>

\* Drop for BroadcastReceiver: then the fields are dropped, the channel's
\* Receiver among them
DropInner(r) ==
    /\ rcv[r].st = "dropping"
    /\ rcv' = [rcv EXCEPT ![r] = NoReceiver]
    /\ rx_cnt' = rx_cnt - 1
    /\ last_recv' = [last_recv EXCEPT ![r] = NoRecv]
    /\ rcv_hist' = [rcv_hist EXCEPT ![r] = NoHist]
    /\ UNCHANGED <<client_count, bc_pos, bc_buf, last_bcast, bc_senders, n_bcast, n_recv,
                   bc_sent>>
    /\ UNCHANGED <<mesh_vars, session_vars, store_vars, registry_vars, cluster_vars,
                   stub_vars>>

\* the Broadcaster b is dropped, and its Sender with it; a subscribe() in
\* progress borrows the Broadcaster it was called on, and no other
DropBroadcaster(b) ==
    /\ b \in bc_senders
    /\ \A r \in Receivers : rcv[r].via # b
    /\ bc_senders' = bc_senders \ {b}
    /\ UNCHANGED <<client_count, bc_pos, bc_buf, rx_cnt, rcv, last_recv, last_bcast,
                   n_bcast, n_recv, bc_sent, rcv_hist>>
    /\ UNCHANGED <<mesh_vars, session_vars, store_vars, registry_vars, cluster_vars,
                   stub_vars>>

BroadcastNext ==
    \/ \E b \in Broadcasters, r \in Receivers : SubscribeCount(b, r)
    \/ \E r \in Receivers : SubscribeInner(r)
    \/ \E b \in Broadcasters, m \in BroadcastMessages : Broadcast(b, m)
    \/ \E p \in PatchIds : BroadcastPatch(p)
    \/ \E r \in Receivers : Recv(r)
    \/ \E r \in Receivers : DropCount(r)
    \/ \E r \in Receivers : DropInner(r)

\* the broadcaster until its last Broadcaster is dropped
BroadcastLifeNext ==
    \/ BroadcastNext
    \/ \E b \in Broadcasters : DropBroadcaster(b)

\* the message recv() number nrecv of receiver r is due: the one broadcast
\* nrecv-th after r subscribed
Due(r) == bc_sent[rcv_hist[r].sub_pos + rcv_hist[r].nrecv]

\* C9 as stated: every receiver subscribed at the time of a broadcast gets
\* exactly that message from recv(): each recv() of a receiver returns Ok
\* with the next message broadcast since it subscribed.
C9_EveryBroadcastReceived ==
    \A r \in Receivers :
        (rcv[r].st = "live" /\ last_recv[r].kind # "none") =>
            last_recv[r] = RecvOk(Due(r))

\* C9 amended: the same for every receiver that never had more than
\* BROADCAST_CAPACITY broadcast messages waiting unread.
C9_ReceivedUnlessOverrun ==
    \A r \in Receivers :
        (rcv[r].st = "live" /\ last_recv[r].kind # "none" /\ ~rcv_hist[r].overrun) =>
            last_recv[r] = RecvOk(Due(r))

\* C9 witness: two subscribers, one Patch broadcast, both have received it
C9_Witness ==
    /\ client_count = 2
    /\ bc_sent = <<Patch("p1")>>
    /\ \A r \in Receivers :
          /\ rcv[r].st = "live"
          /\ rcv_hist[r].sub_pos = 0
          /\ last_recv[r] = RecvOk(Patch("p1"))

\* the handles subscribe() has counted and Drop has not yet discounted
\* the handles subscribe() has returned and that are not dropped, and the
\* subscribe() calls that have raised the counter and not yet returned
Live == {r \in Receivers : rcv[r].st = "live"}
Pending == {r \in Receivers : rcv[r].st = "subscribing"}

\* C10 as stated: in every state client_count is the number of handles
\* subscribe() has returned and that are not dropped, and it is never
\* below zero.
C10_ClientCountIsLiveHandles ==
    /\ client_count = Cardinality(Live)
    /\ client_count >= 0

\* C10, amended: in every state client_count is the number of handles
\* subscribe() has returned and that are not dropped, plus the number of
\* subscribe() calls that have raised the counter and not yet returned
\* their handle; it is never below zero.
C10_ClientCount ==
    /\ client_count = Cardinality(Live) + Cardinality(Pending)
    /\ client_count >= 0

\* C10 witness: two handles were returned and one of them has been dropped
C10_Witness ==
    /\ client_count = 1
    /\ rcv["r1"].st = "none"
    /\ rcv["r2"].st = "live"
    /\ last_recv["r2"].kind = "Ok"

\* C11: broadcast and broadcast_patch return success whatever the number
\* of subscribers: a call made while the channel has no Receiver, before
\* the first subscribe or after the last drop, returns Ok and stores nothing.
C11_BroadcastNoSubscribersOk ==
    /\ last_bcast.op # "none" => last_bcast.result = "Ok" /\ last_bcast.error = ""
    /\ rx_cnt = 0 =>
          \A b \in bc_senders, m \in BroadcastMessages :
              n_bcast < MaxBroadcasts => ENABLED Broadcast(b, m)
    /\ bc_pos = Len(bc_sent)

\* C11 witness: broadcast_patch has returned Ok with no Receiver left, after
\* an earlier message was stored for a subscriber that is dropped since
C11_Witness ==
    /\ last_bcast = [op |-> "broadcast_patch", result |-> "Ok", error |-> "",
                     receivers |-> 0]
    /\ bc_pos > 0
    /\ client_count = 0
    /\ rx_cnt = 0

\* C12: a lag is absorbed by recv(): the only error recv() returns is
\* "channel closed", it skips nothing, and it is returned only once every
\* Broadcaster (Sender) is gone.
C12_LagAbsorbed ==
    \A r \in Receivers :
        last_recv[r].kind = "Err" =>
            /\ last_recv[r].error = "ChannelClosed"
            /\ last_recv[r].skipped = 0
            /\ Closed

\* a receiver that holds its handle and was never overrun
KeepsUp(r) == rcv[r].st = "live" /\ ~rcv_hist[r].overrun
\* a receiver whose oldest unread messages the channel has overwritten
Overrun(r) == rcv[r].st \in {"live", "dropping"} /\ rcv_hist[r].overrun

\* C13: broadcast is never held up and never fails on account of a
\* receiver that does not read: it can always be called and it returns Ok
\* while a receiver is overrun; the overrun costs only that receiver its
\* oldest unread messages, and a receiver that keeps up next to it has all
\* its unread messages retained and gets each of them from recv().
C13_SlowReceiverAlone ==
    /\ \A b \in bc_senders, m \in BroadcastMessages :
          n_bcast < MaxBroadcasts => ENABLED Broadcast(b, m)
    /\ (\E s \in Receivers : Overrun(s)) =>
          /\ last_bcast.result = "Ok"
          /\ \A r \in Receivers :
                KeepsUp(r) =>
                    /\ \A i \in (rcv[r].next + 1)..bc_pos : i > bc_pos - Len(bc_buf)
                    /\ last_recv[r].kind # "none" => last_recv[r] = RecvOk(Due(r))

\* C13 witness: r1 is overrun, and r2, subscribed next to it, has received
\* the message broadcast after r1's queue was full
C13_Witness ==
    /\ Overrun("r1")
    /\ KeepsUp("r2")
    /\ last_bcast.result = "Ok"
    /\ last_bcast.receivers = 2
    /\ bc_pos > BROADCAST_CAPACITY
    /\ rcv_hist["r2"].got = bc_pos
    /\ last_recv["r2"] = RecvOk(bc_sent[bc_pos])

\* C20: the messages a receiver gets from successive recv() calls are
\* messages broadcast after it subscribed, in the order of the broadcasts:
\* each one stands later in the sequence of broadcasts than the one before
\* (none twice), and directly after it while the receiver was never overrun
\* (none skipped).
C20_OrderedStream ==
    \A r \in Receivers :
        (rcv[r].st = "live" /\ rcv_hist[r].got > 0) =>
            /\ rcv_hist[r].got > rcv_hist[r].sub_pos
            /\ rcv_hist[r].got <= Len(bc_sent)
            /\ rcv_hist[r].prev < rcv_hist[r].got
            /\ last_recv[r].kind = "Ok" => last_recv[r].msg = bc_sent[rcv_hist[r].got]
            /\ ~rcv_hist[r].overrun =>
                  IF rcv_hist[r].prev = 0
                    THEN rcv_hist[r].got = rcv_hist[r].sub_pos + 1
                    ELSE rcv_hist[r].got = rcv_hist[r].prev + 1

\* C20 witness: a Patch and then a Shutdown were broadcast, and r2 has
\* received the Patch and then the Shutdown
C20_Witness ==
    /\ bc_sent = <<Patch("p1"), Shutdown>>
    /\ rcv["r2"].st = "live"
    /\ rcv_hist["r2"].prev = 1
    /\ rcv_hist["r2"].got = 2
    /\ last_recv["r2"] = RecvOk(Shutdown)

(* ------------------------------------------------------------------ *)
(* Specifications                                                      *)
(* ------------------------------------------------------------------ *)

\* BrioHostState::new with an empty registry, standalone
Init ==
    /\ MeshInit /\ SessionInit /\ StoreInit /\ BroadcastInit
    /\ RegistryInit /\ ClusterInit /\ StubInit
Next == MeshNext
\* the mesh router
Spec == Init /\ [][Next]_vars
\* the mesh router with every component registered, under fair scheduling
InitRegistered ==
    /\ MeshRegisteredInit /\ SessionInit /\ StoreInit /\ BroadcastInit
    /\ RegistryInit /\ ClusterInit /\ StubInit
SpecMeshLive == InitRegistered /\ [][MeshCalls]_vars /\ MeshFairness
\* the mesh router with every component registered, over a longer run of calls
SpecFifo == InitRegistered /\ [][FifoNext]_vars
\* the session facade
SpecSession == Init /\ [][SessionNext]_vars
\* the store facade
SpecStore == Init /\ [][StoreNext]_vars
\* the broadcaster, fresh or with a backlog
InitBroadcast ==
    /\ MeshInit /\ SessionInit /\ StoreInit
    /\ (BroadcastInit \/ BroadcastBacklogInit)
    /\ RegistryInit /\ ClusterInit /\ StubInit
SpecBroadcast == InitBroadcast /\ [][BroadcastNext]_vars
\* the broadcaster and the drop of its Broadcasters
SpecBroadcastLife == InitBroadcast /\ [][BroadcastLifeNext]_vars
\* the provider registry of a kernel built with new or with with_provider
InitRegistry ==
    /\ MeshInit /\ SessionInit /\ StoreInit /\ BroadcastInit
    /\ (RegistryInit \/ RegistryWithProviderInit)
    /\ ClusterInit /\ StubInit
SpecRegistry == InitRegistry /\ [][RegistryNext]_vars
\* the mesh router of a kernel started in distributed mode
InitDistributed ==
    /\ MeshInit /\ SessionInit /\ StoreInit /\ BroadcastInit
    /\ RegistryInit /\ DistributedInit /\ StubInit
SpecDistributed == InitDistributed /\ [][MeshNext]_vars
\* the guest entry points of the supervisor
InitStubs ==
    /\ MeshInit /\ SessionInit /\ StoreInit /\ BroadcastInit
    /\ RegistryInit /\ ClusterInit /\ StubAnyArchInit
SpecStubs == InitStubs /\ [][StubNext]_vars
\* the mesh router with the guards of its lock step by step, from an empty
\* table or with the component of "A" not reading
InitRouterLock ==
    /\ (MeshInit \/ MeshBusyInit)
    /\ SessionInit /\ StoreInit /\ BroadcastInit
    /\ RegistryInit /\ ClusterInit /\ StubInit
SpecRouterLock == InitRouterLock /\ [][RouterLockNext]_vars
\* the mesh router with the component of "A" unresponsive, under fair
\* scheduling of the callers and of the component of "B"
InitBusy ==
    /\ (MeshBusyInit \/ MeshLastSlotInit) /\ SessionInit /\ StoreInit /\ BroadcastInit
    /\ RegistryInit /\ ClusterInit /\ StubInit
SpecSlowTarget == InitBusy /\ [][SlowTargetNext]_vars /\ SlowTargetFairness

====
